---- MODULE Spec2Model ----
(***************************************************************************)
(* State-machine model of ThreadPool (src/thrdPool.h) and of the clients   *)
(* that use it the way src/example.cpp does: enqueue, then future::get.    *)
(*                                                                         *)
(* Threads of the model: the worker threads created by the constructor,    *)
(* client threads calling enqueue, handle holders calling get, and the     *)
(* owner thread running the destructor.  std::mutex, condition_variable,   *)
(* packaged_task and future are modelled by their standard semantics.      *)
(***************************************************************************)
EXTENDS Naturals, Sequences, FiniteSets

(* ---- bounds of the model ---- *)
MaxThreads == 2
MaxTasks == 2
NumClients == 2
MaxRereads == 1

Workers == 1..MaxThreads
TaskIds == 1..MaxTasks
Clients == 1..NumClients

VARIABLES
    threads,    \* constructor argument: number of worker threads
    stop,       \* ThreadPool::stop
    tasks,      \* ThreadPool::tasks, a FIFO of task ids (one per packaged_task)
    mutex,      \* ThreadPool::queue_mutex: <<"free">> or its holder
    waiters,    \* workers blocked inside condition.wait
    wpc,        \* position of each worker in its loop
    wtask,      \* the worker's local `task` (0: empty std::function)
    cpc,        \* position of each client inside enqueue
    ctask,      \* the client's local `task` shared_ptr (0: none)
    dpc,        \* position of the owner thread in ~ThreadPool
    joinIdx,    \* index of the worker the destructor's join loop is at
    joinable,   \* std::thread::joinable() of each element of workers
    runs,       \* how often the stop-notify-join protocol has been run to its end and started anew
    nextId,     \* next unused task id
    callable,   \* what each created task's bound callable does
    chan,       \* shared state of each packaged_task / future pair
    fut,        \* state of the std::future handed to the submitter
    reads,      \* what the calls of get() on each handle produced, in order
    rejected,   \* tasks whose enqueue call threw
    pushOrder,  \* history: task ids in the order they were emplaced
    popOrder,   \* history: task ids in the order workers popped them
    popCount,   \* history: how often each task was taken out of the queue
    execCount,  \* history: how often each task's packaged_task was invoked
    afterFailure \* history: tasks created when some task had already failed

vars == <<threads, stop, tasks, mutex, waiters, wpc, wtask, cpc, ctask, dpc,
          joinIdx, joinable, runs, nextId, callable, chan, fut, reads, rejected, pushOrder,
          popOrder, popCount, execCount, afterFailure>>

poolVars == <<threads, stop, tasks, mutex, waiters, wpc, wtask, dpc, joinIdx,
              joinable, runs>>
histVars == <<pushOrder, popOrder, popCount, execCount, afterFailure>>

(* ---- values ---- *)
Free == <<"free", 0>>
WorkerThread(w) == <<"worker", w>>
ClientThread(c) == <<"client", c>>
OwnerThread == <<"owner", 0>>

Pending == <<"pending", 0>>
Value(v) == <<"value", v>>
Failure == <<"failure", 0>>
NoState == <<"no_state", 0>>
Abort == <<"abort", 0>>
Broken == <<"broken_promise", 0>>

Live == 1..threads

(* ---- std::queue operations used by the pool ---- *)
front(q) == Head(q)
\* fault variant of pop: tasks.pop() left out
popNothing(q) == q
pop(q) == Tail(q)
\* fault variant of emplace: the task is inserted at the head
emplaceFront(q, t) == <<t>> \o q
emplace(q, t) == Append(q, t)
empty(q) == q = <<>>

(* ---- the bound callable: example.cpp's lambda returns i * i; a callable ---- *)
(* ---- may also throw, which packaged_task stores as the task's outcome   ---- *)
Kinds == {"square", "throw"}
NoCallable == <<"none", 0>>
Invoke(f) == IF f[1] = "square" THEN Value(f[2] * f[2]) ELSE Failure

\* the state the constructor leaves for a thread count of n
Construct(n) ==
    /\ threads = n
    /\ stop = FALSE
    /\ tasks = <<>>
    /\ mutex = Free
    /\ waiters = {}
    /\ wpc = [w \in 1..threads |-> "start"]
    /\ wtask = [w \in 1..threads |-> 0]
    /\ cpc = [c \in Clients |-> "idle"]
    /\ ctask = [c \in Clients |-> 0]
    /\ dpc = "alive"
    /\ joinIdx = 0
    /\ joinable = [w \in 1..threads |-> TRUE]
    /\ runs = 0
    /\ nextId = 1
    /\ callable = [t \in TaskIds |-> NoCallable]
    /\ chan = [t \in TaskIds |-> Pending]
    /\ fut = [t \in TaskIds |-> "none"]
    /\ reads = [t \in TaskIds |-> <<>>]
    /\ rejected = {}
    /\ pushOrder = <<>>
    /\ popOrder = <<>>
    /\ popCount = [t \in TaskIds |-> 0]
    /\ execCount = [t \in TaskIds |-> 0]
    /\ afterFailure = {}

\* a pool as the interface asks for it: at least one worker
Init == \E n \in 1..MaxThreads : Construct(n)

\* a pool constructed with a thread count of 0
ZeroInit == Construct(0)

(* ======================= worker loop (thrdPool.h 55-84) ================= *)

\* the predicate of condition.wait
WaitPred == stop \/ ~empty(tasks)

\* fault variant of ExitCond: exit as soon as stop is set (abrupt shutdown)
ExitOnStop == stop

\* the exit test after the wait
ExitCond == stop /\ empty(tasks)

\* std::unique_lock<std::mutex> lock(this->queue_mutex)
W_Lock(w) ==
    /\ wpc[w] = "start"
    /\ mutex = Free
    /\ mutex' = WorkerThread(w)
    /\ wpc' = [wpc EXCEPT ![w] = "pred"]
    /\ UNCHANGED <<threads, joinable, runs, stop, tasks, waiters, wtask, cpc, ctask, dpc, joinIdx,
                   nextId, callable, chan, fut, reads, rejected, histVars>>

\* fault variant of W_Wait: condition.wait(lock) without the predicate, so
\* the worker blocks whatever the state of the queue and of the stop flag
W_WaitBlind(w) ==
    /\ wpc[w] = "pred"
    /\ mutex = WorkerThread(w)
    /\ wpc' = [wpc EXCEPT ![w] = "wait"]
    /\ mutex' = Free
    /\ waiters' = waiters \cup {w}
    /\ UNCHANGED <<threads, joinable, runs, stop, tasks, wtask, cpc, ctask, dpc, joinIdx,
                   nextId, callable, chan, fut, reads, rejected, histVars>>

\* condition.wait(lock, pred): with the lock held, the predicate is false, so
\* the wait atomically releases the lock and blocks on the condition variable
W_Wait(w) ==
    /\ wpc[w] = "pred"
    /\ mutex = WorkerThread(w)
    /\ ~WaitPred
    /\ wpc' = [wpc EXCEPT ![w] = "wait"]
    /\ mutex' = Free
    /\ waiters' = waiters \cup {w}
    /\ UNCHANGED <<threads, joinable, runs, stop, tasks, wtask, cpc, ctask, dpc, joinIdx,
                   nextId, callable, chan, fut, reads, rejected, histVars>>

\* a blocked wait may return without any notification (spurious wakeup)
W_Spurious(w) ==
    /\ wpc[w] = "wait"
    /\ w \in waiters
    /\ waiters' = waiters \ {w}
    /\ wpc' = [wpc EXCEPT ![w] = "relock"]
    /\ UNCHANGED <<threads, joinable, runs, stop, tasks, mutex, wtask, cpc, ctask, dpc, joinIdx,
                   nextId, callable, chan, fut, reads, rejected, histVars>>

\* a woken wait re-acquires the lock and tests the predicate again
W_Relock(w) ==
    /\ wpc[w] = "relock"
    /\ mutex = Free
    /\ mutex' = WorkerThread(w)
    /\ wpc' = [wpc EXCEPT ![w] = "pred"]
    /\ UNCHANGED <<threads, joinable, runs, stop, tasks, waiters, wtask, cpc, ctask, dpc, joinIdx,
                   nextId, callable, chan, fut, reads, rejected, histVars>>

\* fault variant of W_Exit: the exiting worker resets the stop flag
W_ExitClearsStop(w) ==
    /\ wpc[w] = "pred"
    /\ mutex = WorkerThread(w)
    /\ WaitPred
    /\ ExitCond
    /\ stop' = FALSE
    /\ mutex' = Free
    /\ wpc' = [wpc EXCEPT ![w] = "done"]
    /\ UNCHANGED <<threads, joinable, runs, tasks, waiters, wtask, cpc, ctask, dpc, joinIdx,
                   nextId, callable, chan, fut, reads, rejected, histVars>>

\* the wait returns with the lock held because its predicate is true;
\* if (stop && tasks.empty()) return;   (the lock is released by its scope)
W_Exit(w) ==
    /\ wpc[w] = "pred"
    /\ mutex = WorkerThread(w)
    /\ WaitPred
    /\ ExitCond
    /\ mutex' = Free
    /\ wpc' = [wpc EXCEPT ![w] = "done"]
    /\ UNCHANGED <<threads, joinable, runs, stop, tasks, waiters, wtask, cpc, ctask, dpc, joinIdx,
                   nextId, callable, chan, fut, reads, rejected, histVars>>

\* fault variant of W_Take: the task is handed to a thread of its own and the
\* worker goes straight back for the next one
W_TakeDetached(w) ==
    /\ wpc[w] = "pred"
    /\ mutex = WorkerThread(w)
    /\ WaitPred
    /\ ~ExitCond
    /\ tasks' = pop(tasks)
    /\ popOrder' = Append(popOrder, front(tasks))
    /\ popCount' = [popCount EXCEPT ![front(tasks)] = @ + 1]
    /\ mutex' = Free
    /\ wpc' = [wpc EXCEPT ![w] = "start"]
    /\ UNCHANGED <<threads, joinable, runs, stop, waiters, wtask, cpc, ctask, dpc, joinIdx, nextId,
                   callable, chan, fut, reads, rejected, pushOrder, execCount,
                   afterFailure>>

\* fault variant of W_Take: task() is called inside the lock's scope
W_TakeKeepsLock(w) ==
    /\ wpc[w] = "pred"
    /\ mutex = WorkerThread(w)
    /\ WaitPred
    /\ ~ExitCond
    /\ wtask' = [wtask EXCEPT ![w] = front(tasks)]
    /\ tasks' = pop(tasks)
    /\ popOrder' = Append(popOrder, front(tasks))
    /\ popCount' = [popCount EXCEPT ![front(tasks)] = @ + 1]
    /\ wpc' = [wpc EXCEPT ![w] = "run"]
    /\ UNCHANGED <<threads, joinable, runs, stop, mutex, waiters, cpc, ctask, dpc, joinIdx, nextId,
                   callable, chan, fut, reads, rejected, pushOrder, execCount,
                   afterFailure>>

\* the wait returns with the lock held because its predicate is true;
\* task = std::move(tasks.front()); tasks.pop(); and the scope's unlock
W_Take(w) ==
    /\ wpc[w] = "pred"
    /\ mutex = WorkerThread(w)
    /\ WaitPred
    /\ ~ExitCond
    /\ wtask' = [wtask EXCEPT ![w] = front(tasks)]
    /\ tasks' = pop(tasks)
    /\ popOrder' = Append(popOrder, front(tasks))
    /\ popCount' = [popCount EXCEPT ![front(tasks)] = @ + 1]
    /\ mutex' = Free
    /\ wpc' = [wpc EXCEPT ![w] = "run"]
    /\ UNCHANGED <<threads, joinable, runs, stop, waiters, cpc, ctask, dpc, joinIdx, nextId,
                   callable, chan, fut, reads, rejected, pushOrder, execCount,
                   afterFailure>>

\* fault variant of Outcome: the closure refers to enqueue's latest task
\* (a capture by reference) instead of holding its own shared_ptr
OutcomeOfLatest(t) == Invoke(callable[nextId - 1])

\* (*task)() in the closure that captured this task's shared_ptr by value
Outcome(t) == Invoke(callable[t])

\* fault variant of W_Run: the task is a plain call, so what the callable
\* throws is not stored but leaves the thread function
W_RunUncaught(w) ==
    /\ wpc[w] = "run"
    /\ LET t == wtask[w] IN
         /\ execCount' = [execCount EXCEPT ![t] = @ + 1]
         /\ IF Outcome(t) = Failure
            THEN /\ chan' = chan
                 /\ wpc' = [wpc EXCEPT ![w] = "aborted"]
            ELSE /\ chan' = [chan EXCEPT ![t] = Outcome(t)]
                 /\ wpc' = [wpc EXCEPT ![w] = "start"]
    /\ wtask' = [wtask EXCEPT ![w] = 0]
    /\ UNCHANGED <<threads, joinable, runs, stop, tasks, mutex, waiters, cpc, ctask, dpc, joinIdx,
                   nextId, callable, fut, reads, rejected, pushOrder, popOrder,
                   popCount, afterFailure>>

\* task(): the queued closure calls (*task)(), and packaged_task stores what
\* the bound callable returned or threw in the shared state; a packaged_task
\* that already holds an outcome throws promise_already_satisfied instead,
\* which leaves the worker's thread function and ends the thread
W_Run(w) ==
    /\ wpc[w] = "run"
    /\ LET t == wtask[w] IN
         /\ execCount' = [execCount EXCEPT ![t] = @ + 1]
         /\ IF chan[t] = Pending
            THEN /\ chan' = [chan EXCEPT ![t] = Outcome(t)]
                 /\ wpc' = [wpc EXCEPT ![w] = "start"]
            ELSE /\ chan' = chan
                 /\ wpc' = [wpc EXCEPT ![w] = "aborted"]
    /\ wtask' = [wtask EXCEPT ![w] = 0]
    /\ UNCHANGED <<threads, joinable, runs, stop, tasks, mutex, waiters, cpc, ctask, dpc, joinIdx,
                   nextId, callable, fut, reads, rejected, pushOrder, popOrder,
                   popCount, afterFailure>>

(* ======================= enqueue (thrdPool.h 90-127) ==================== *)

\* the pool object exists until its destructor's body has ended
Alive == dpc \notin {"returned", "destroyed", "error"}

\* make_shared<packaged_task>(bind(f, args...)) and task->get_future()
E_Make(c, kind) ==
    /\ Alive
    /\ cpc[c] = "idle"
    /\ nextId <= MaxTasks
    /\ callable' = [callable EXCEPT ![nextId] = <<kind, nextId - 1>>]
    /\ ctask' = [ctask EXCEPT ![c] = nextId]
    /\ nextId' = nextId + 1
    /\ cpc' = [cpc EXCEPT ![c] = "lock"]
    /\ afterFailure' = IF \E t \in TaskIds : chan[t] = Failure
                       THEN afterFailure \cup {nextId} ELSE afterFailure
    /\ UNCHANGED <<poolVars, chan, fut, reads, rejected, pushOrder, popOrder,
                   popCount, execCount>>

\* std::unique_lock<std::mutex> lock(queue_mutex)
E_Lock(c) ==
    /\ Alive
    /\ cpc[c] = "lock"
    /\ mutex = Free
    /\ mutex' = ClientThread(c)
    /\ cpc' = [cpc EXCEPT ![c] = "locked"]
    /\ UNCHANGED <<threads, joinable, runs, stop, tasks, waiters, wpc, wtask, ctask, dpc, joinIdx,
                   nextId, callable, chan, fut, reads, rejected, histVars>>

\* if (stop) throw std::runtime_error(...): unwinding releases the lock and
\* destroys the local future and the only reference to the packaged_task
E_Throw(c) ==
    /\ Alive
    /\ cpc[c] = "locked"
    /\ mutex = ClientThread(c)
    /\ stop
    /\ mutex' = Free
    /\ rejected' = rejected \cup {ctask[c]}
    /\ ctask' = [ctask EXCEPT ![c] = 0]
    /\ cpc' = [cpc EXCEPT ![c] = "idle"]
    /\ UNCHANGED <<threads, joinable, runs, stop, tasks, waiters, wpc, wtask, dpc, joinIdx,
                   nextId, callable, chan, fut, reads, histVars>>

\* fault variant of E_Emplace: the test of stop left out
E_EmplaceUnchecked(c) ==
    /\ Alive
    /\ cpc[c] = "locked"
    /\ mutex = ClientThread(c)
    /\ tasks' = emplace(tasks, ctask[c])
    /\ pushOrder' = Append(pushOrder, ctask[c])
    /\ mutex' = Free
    /\ cpc' = [cpc EXCEPT ![c] = "notify"]
    /\ UNCHANGED <<threads, joinable, runs, stop, waiters, wpc, wtask, ctask, dpc, joinIdx,
                   nextId, callable, chan, fut, reads, rejected, popOrder,
                   popCount, execCount, afterFailure>>

\* tasks.emplace([task]() { (*task)(); }); and the scope's unlock
E_Emplace(c) ==
    /\ Alive
    /\ cpc[c] = "locked"
    /\ mutex = ClientThread(c)
    /\ ~stop
    /\ tasks' = emplace(tasks, ctask[c])
    /\ pushOrder' = Append(pushOrder, ctask[c])
    /\ mutex' = Free
    /\ cpc' = [cpc EXCEPT ![c] = "notify"]
    /\ UNCHANGED <<threads, joinable, runs, stop, waiters, wpc, wtask, ctask, dpc, joinIdx,
                   nextId, callable, chan, fut, reads, rejected, popOrder,
                   popCount, execCount, afterFailure>>

\* fault variant of NotifyOne: the notification left out
NotifyLost == UNCHANGED <<waiters, wpc>>

\* condition.notify_one(): wakes one of the blocked workers, if there is one
NotifyOne ==
    IF waiters = {}
    THEN UNCHANGED <<waiters, wpc>>
    ELSE \E w \in waiters :
            /\ waiters' = waiters \ {w}
            /\ wpc' = [wpc EXCEPT ![w] = "relock"]

\* fault variant of E_Notify: enqueue waits for the task's outcome before it
\* returns the handle
E_NotifyWaits(c) ==
    /\ Alive
    /\ cpc[c] = "notify"
    /\ chan[ctask[c]] # Pending
    /\ NotifyOne
    /\ fut' = [fut EXCEPT ![ctask[c]] = "valid"]
    /\ ctask' = [ctask EXCEPT ![c] = 0]
    /\ cpc' = [cpc EXCEPT ![c] = "idle"]
    /\ UNCHANGED <<threads, joinable, runs, stop, tasks, mutex, wtask, dpc, joinIdx, nextId,
                   callable, chan, reads, rejected, histVars>>

\* condition.notify_one(); return res;
E_Notify(c) ==
    /\ Alive
    /\ cpc[c] = "notify"
    /\ NotifyOne
    /\ fut' = [fut EXCEPT ![ctask[c]] = "valid"]
    /\ ctask' = [ctask EXCEPT ![c] = 0]
    /\ cpc' = [cpc EXCEPT ![c] = "idle"]
    /\ UNCHANGED <<threads, joinable, runs, stop, tasks, mutex, wtask, dpc, joinIdx, nextId,
                   callable, chan, reads, rejected, histVars>>

(* ======================= the handle (example.cpp 33-34) ================= *)

\* fault variant of Ready: get() does not wait for the outcome
ReadyAlways(t) == TRUE

\* the shared state holds an outcome
Ready(t) == chan[t] # Pending

\* fault variant of H_Get: get() keeps the shared state (as shared_future does)
H_GetKeepsState(t) ==
    /\ fut[t] = "valid"
    /\ Ready(t)
    /\ reads' = [reads EXCEPT ![t] = Append(@, chan[t])]
    /\ fut' = fut
    /\ UNCHANGED <<poolVars, cpc, ctask, nextId, callable, chan, rejected, histVars>>

\* result.get() on a valid future: blocks until the shared state is ready,
\* yields the stored value or rethrows the stored exception, and releases
\* the shared state, which leaves the future invalid
H_Get(t) ==
    /\ fut[t] = "valid"
    /\ Ready(t)
    /\ reads' = [reads EXCEPT ![t] = Append(@, chan[t])]
    /\ fut' = [fut EXCEPT ![t] = "invalid"]
    /\ UNCHANGED <<poolVars, cpc, ctask, nextId, callable, chan, rejected, histVars>>

\* number of calls of get() made on futures that were already invalid
Rereads == Cardinality({p \in TaskIds \X (2..(MaxRereads + 1)) : p[2] <= Len(reads[p[1]])})

\* get() on an invalid future has undefined behaviour: the builds in use
\* either throw future_error(no_state) or dereference the released state
InvalidGetOutcomes == {NoState, Abort}

H_GetInvalid(t, r) ==
    /\ fut[t] = "invalid"
    /\ Rereads < MaxRereads
    /\ reads' = [reads EXCEPT ![t] = Append(@, r)]
    /\ UNCHANGED <<poolVars, cpc, ctask, nextId, callable, chan, fut, rejected, histVars>>

(* ======================= destructor (thrdPool.h 130-145) ================ *)

\* std::unique_lock<std::mutex> lock(queue_mutex)
D_Lock ==
    /\ dpc = "alive"
    /\ mutex = Free
    /\ mutex' = OwnerThread
    /\ dpc' = "locked"
    /\ UNCHANGED <<threads, joinable, runs, stop, tasks, waiters, wpc, wtask, cpc, ctask, joinIdx,
                   nextId, callable, chan, fut, reads, rejected, histVars>>

\* stop = true; and the scope's unlock
D_SetStop ==
    /\ dpc = "locked"
    /\ mutex = OwnerThread
    /\ stop' = TRUE
    /\ mutex' = Free
    /\ dpc' = "notify"
    /\ UNCHANGED <<threads, joinable, runs, tasks, waiters, wpc, wtask, cpc, ctask, joinIdx,
                   nextId, callable, chan, fut, reads, rejected, histVars>>

\* fault variant of D_NotifyAll: notify_one in place of notify_all
D_NotifyOneOnly ==
    /\ dpc = "notify"
    /\ NotifyOne
    /\ dpc' = "join"
    /\ joinIdx' = 1
    /\ UNCHANGED <<threads, joinable, runs, stop, tasks, mutex, wtask, cpc, ctask, nextId,
                   callable, chan, fut, reads, rejected, histVars>>

\* condition.notify_all(): wakes every blocked worker
D_NotifyAll ==
    /\ dpc = "notify"
    /\ wpc' = [w \in 1..threads |-> IF w \in waiters THEN "relock" ELSE wpc[w]]
    /\ waiters' = {}
    /\ dpc' = "join"
    /\ joinIdx' = 1
    /\ UNCHANGED <<threads, joinable, runs, stop, tasks, mutex, wtask, cpc, ctask, nextId,
                   callable, chan, fut, reads, rejected, histVars>>

\* worker.join(): returns once that worker's thread function has returned
D_Join ==
    /\ dpc = "join"
    /\ joinIdx <= threads
    /\ joinable[joinIdx]
    /\ wpc[joinIdx] = "done"
    /\ joinable' = [joinable EXCEPT ![joinIdx] = FALSE]
    /\ joinIdx' = joinIdx + 1
    /\ UNCHANGED <<threads, runs, stop, tasks, mutex, waiters, wpc, wtask, cpc, ctask,
                   dpc, nextId, callable, chan, fut, reads, rejected, histVars>>

\* the join loop is over: the destructor's body ends
D_Return ==
    /\ dpc = "join"
    /\ joinIdx > threads
    /\ dpc' = "returned"
    /\ UNCHANGED <<threads, joinable, runs, stop, tasks, mutex, waiters, wpc, wtask, cpc, ctask,
                   joinIdx, nextId, callable, chan, fut, reads, rejected, histVars>>

\* worker.join() on a thread that was joined before: std::thread::join throws
\* std::system_error(invalid_argument), which leaves the loop and the body
D_JoinThrows ==
    /\ dpc = "join"
    /\ joinIdx <= threads
    /\ ~joinable[joinIdx]
    /\ dpc' = "error"
    /\ UNCHANGED <<threads, joinable, runs, stop, tasks, mutex, waiters, wpc, wtask, cpc,
                   ctask, joinIdx, nextId, callable, chan, fut, reads, rejected,
                   histVars>>

\* the destructor has been run to its end (its body, or its body and the
\* destruction of the members, as after an explicit pool.~ThreadPool()) and
\* its body is entered once more from its first statement
D_Rerun ==
    /\ dpc \in {"returned", "destroyed"}
    /\ runs = 0
    /\ runs' = 1
    /\ dpc' = "alive"
    /\ UNCHANGED <<threads, joinable, stop, tasks, mutex, waiters, wpc, wtask, cpc,
                   ctask, joinIdx, nextId, callable, chan, fut, reads, rejected,
                   histVars>>

\* fault variant of D_Destroy: the destructor runs what is left in the queue
D_DestroyRunsQueued ==
    /\ dpc = "returned"
    /\ dpc' = "destroyed"
    /\ tasks' = <<>>
    /\ chan' = [t \in TaskIds |->
                  IF t \in {tasks[i] : i \in 1..Len(tasks)} THEN Outcome(t) ELSE chan[t]]
    /\ execCount' = [t \in TaskIds |->
                  IF t \in {tasks[i] : i \in 1..Len(tasks)} THEN execCount[t] + 1
                  ELSE execCount[t]]
    /\ UNCHANGED <<threads, joinable, runs, stop, mutex, waiters, wpc, wtask, cpc, ctask, joinIdx,
                   nextId, callable, fut, reads, rejected, pushOrder, popOrder,
                   popCount, afterFailure>>

\* after its body the destructor destroys the members: the queue goes, and
\* with it every closure still queued; a packaged_task whose last owner that
\* closure was is destroyed without having run, which stores
\* future_error(broken_promise) in its shared state and makes it ready
D_Destroy ==
    /\ dpc = "returned"
    /\ dpc' = "destroyed"
    /\ tasks' = <<>>
    /\ chan' = [t \in TaskIds |->
                  IF /\ t \in {tasks[i] : i \in 1..Len(tasks)}
                     /\ \A c \in Clients : ctask[c] # t
                     /\ chan[t] = Pending
                  THEN Broken ELSE chan[t]]
    /\ UNCHANGED <<threads, joinable, runs, stop, mutex, waiters, wpc, wtask, cpc, ctask, joinIdx,
                   nextId, callable, fut, reads, rejected, histVars>>

(* ======================= specification ================================= *)

PoolNext ==
    \/ \E w \in Live : W_Lock(w)
    \/ \E w \in Live : W_Wait(w)
    \/ \E w \in Live : W_Spurious(w)
    \/ \E w \in Live : W_Relock(w)
    \/ \E w \in Live : W_Exit(w)
    \/ \E w \in Live : W_Take(w)
    \/ \E w \in Live : W_Run(w)
    \/ \E c \in Clients, kind \in Kinds : E_Make(c, kind)
    \/ \E c \in Clients : E_Lock(c)
    \/ \E c \in Clients : E_Throw(c)
    \/ \E c \in Clients : E_Emplace(c)
    \/ \E c \in Clients : E_Notify(c)
    \/ D_Lock
    \/ D_SetStop
    \/ D_NotifyAll
    \/ D_Join
    \/ D_Return
    \/ D_Destroy

Next ==
    \/ PoolNext
    \/ \E t \in TaskIds : H_Get(t)
    \/ \E t \in TaskIds, r \in InvalidGetOutcomes : H_GetInvalid(t, r)

PoolSpec == Init /\ [][PoolNext]_vars

\* with no worker thread there is no worker step and no join
ZeroNext ==
    \/ \E c \in Clients, kind \in Kinds : E_Make(c, kind)
    \/ \E c \in Clients : E_Lock(c)
    \/ \E c \in Clients : E_Throw(c)
    \/ \E c \in Clients : E_Emplace(c)
    \/ \E c \in Clients : E_Notify(c)
    \/ \E t \in TaskIds : H_Get(t)
    \/ D_Lock
    \/ D_SetStop
    \/ D_NotifyAll
    \/ D_Return
    \/ D_Destroy

ZeroSpec == ZeroInit /\ [][ZeroNext]_vars

\* the pool when the body of the destructor is run a second time
RerunNext ==
    \/ PoolNext
    \/ D_Rerun
    \/ D_JoinThrows

RerunSpec == Init /\ [][RerunNext]_vars

Spec == Init /\ [][Next]_vars

(* ---- fair scheduling: a thread that can take a step eventually takes it, ---- *)
(* ---- a thread contending for the mutex eventually gets it, and a task's  ---- *)
(* ---- callable returns.  Nothing obliges a client to call enqueue, the    ---- *)
(* ---- owner to destroy the pool, or a wait to wake spuriously.            ---- *)
Fairness ==
    /\ \A w \in Workers : SF_vars(w \in Live /\ W_Lock(w))
    /\ \A w \in Workers : SF_vars(w \in Live /\ W_Relock(w))
    /\ \A w \in Workers : WF_vars(w \in Live /\ W_Wait(w))
    /\ \A w \in Workers : WF_vars(w \in Live /\ W_Exit(w))
    /\ \A w \in Workers : WF_vars(w \in Live /\ W_Take(w))
    /\ \A w \in Workers : WF_vars(w \in Live /\ W_Run(w))
    /\ \A c \in Clients : SF_vars(E_Lock(c))
    /\ \A c \in Clients : WF_vars(E_Throw(c))
    /\ \A c \in Clients : WF_vars(E_Emplace(c))
    /\ \A c \in Clients : WF_vars(E_Notify(c))
    /\ WF_vars(D_SetStop)
    /\ WF_vars(D_NotifyAll)
    /\ WF_vars(D_Join)
    /\ WF_vars(D_Return)

FairSpec == Init /\ [][PoolNext]_vars /\ Fairness

(* ---- the same scheduling, but a callable need not return ---- *)
BusyFairness ==
    /\ \A w \in Workers : SF_vars(w \in Live /\ W_Lock(w))
    /\ \A w \in Workers : SF_vars(w \in Live /\ W_Relock(w))
    /\ \A w \in Workers : WF_vars(w \in Live /\ W_Wait(w))
    /\ \A w \in Workers : WF_vars(w \in Live /\ W_Exit(w))
    /\ \A w \in Workers : WF_vars(w \in Live /\ W_Take(w))
    /\ \A c \in Clients : SF_vars(E_Lock(c))
    /\ \A c \in Clients : WF_vars(E_Throw(c))
    /\ \A c \in Clients : WF_vars(E_Emplace(c))
    /\ \A c \in Clients : WF_vars(E_Notify(c))
    /\ WF_vars(D_SetStop)
    /\ WF_vars(D_NotifyAll)
    /\ WF_vars(D_Join)
    /\ WF_vars(D_Return)

BusySpec == Init /\ [][PoolNext]_vars /\ BusyFairness

(* ---- derived notions used by the properties ---- *)
Range(s) == {s[i] : i \in 1..Len(s)}
Accepted == Range(pushOrder)
Running(w) == wpc[w] = "run"

Completed(t) == chan[t] # Pending
FinalOutcome(t) == chan[t][1] \in {"value", "failure"}
IsPrefix(a, b) == Len(a) <= Len(b) /\ \A i \in 1..Len(a) : a[i] = b[i]
RunningTask(t) == {w \in Live : Running(w) /\ wtask[w] = t}

(* ======================= properties ==================================== *)

\* C1: under fair scheduling and terminating callables, in a pool with at
\* least one worker, every task accepted by enqueue eventually holds exactly
\* one final outcome (a value or a failure) in its result channel.
C1_AcceptedTaskCompletes ==
    \A t \in TaskIds :
        (t \in Accepted) ~> (FinalOutcome(t) /\ execCount[t] = 1)

\* both tasks were accepted, by one or two workers, and both have completed
C1_Witness ==
    /\ Accepted = TaskIds
    /\ \A t \in TaskIds : FinalOutcome(t) /\ execCount[t] = 1

\* the counts of pops and invocations of each task, and who holds it
C2_StateInv ==
    \A t \in TaskIds :
        /\ popCount[t] <= 1
        /\ execCount[t] <= 1
        /\ execCount[t] <= popCount[t]
        /\ Cardinality(RunningTask(t)) <= 1
        /\ Cardinality(RunningTask(t)) + execCount[t] = popCount[t]
        /\ (Completed(t) <=> execCount[t] = 1)
        /\ (popCount[t] = 1 => t \in Accepted /\ t \notin Range(tasks))

\* a result channel changes only in the step of the worker holding its task
C2_WrittenByTaker ==
    \A t \in TaskIds :
        chan'[t] # chan[t] =>
            /\ chan[t] = Pending
            /\ \E w \in Live : Running(w) /\ wtask[w] = t /\ ~Running(w)'

\* C2: no task is executed more than once: each accepted task is taken from
\* the queue at most once, its packaged_task is invoked (and its result
\* channel written) at most once, only by the worker that took it, and no two
\* workers ever hold the same task.
C2_ExecutedAtMostOnce == [](C2_StateInv) /\ [][C2_WrittenByTaker]_vars

\* one task is complete while another worker is executing the other task
C2_Witness ==
    \E t, u \in TaskIds :
        /\ t # u
        /\ execCount[t] = 1
        /\ RunningTask(u) # {}
        /\ threads = 2

\* C3: when the destructor returns, the queue is empty and every task that an
\* enqueue call accepted has finished executing.
C3_ShutdownDrains ==
    dpc \in {"returned", "destroyed"} =>
        /\ empty(tasks)
        /\ \A w \in Live : wpc[w] = "done"
        /\ \A t \in Accepted : Completed(t) /\ execCount[t] = 1

\* the destructor has returned from a pool that had accepted both tasks
C3_Witness ==
    /\ dpc = "returned"
    /\ Accepted = TaskIds

\* the step that ends an enqueue call which holds the lock with stop set
C4_RejectStep ==
    \A c \in Clients :
        (cpc[c] = "locked" /\ stop /\ cpc'[c] # "locked") =>
            /\ tasks' = tasks
            /\ pushOrder' = pushOrder
            /\ cpc'[c] = "idle"
            /\ ctask[c] \in rejected'
            /\ fut'[ctask[c]] = "none"

\* a rejected task is nowhere in the pool
C4_RejectedNeverRuns ==
    \A t \in rejected :
        /\ t \notin Accepted
        /\ t \notin Range(tasks)
        /\ popCount[t] = 0
        /\ execCount[t] = 0
        /\ chan[t] = Pending
        /\ RunningTask(t) = {}

\* C4: an enqueue call that holds the queue lock with the stop flag set ends
\* by throwing: it leaves the queue unchanged, and the rejected task is never
\* queued, never taken by a worker and never executed.
C4_EnqueueAfterStopRejected == [][C4_RejectStep]_vars /\ [](C4_RejectedNeverRuns)

\* a call was rejected while a task accepted earlier is still in the queue
C4_Witness ==
    /\ rejected # {}
    /\ tasks # <<>>

\* the step in which a worker runs a callable that throws
C5_FailureStep ==
    \A w \in Live :
        (Running(w) /\ callable[wtask[w]][1] = "throw" /\ ~Running(w)') =>
            /\ chan'[wtask[w]] = Failure
            /\ wpc'[w] = "start"
            /\ \A u \in TaskIds \ {wtask[w]} : chan'[u] = chan[u]
            /\ \A v \in Live \ {w} : wpc'[v] = wpc[v]
            /\ stop' = stop
            /\ tasks' = tasks

\* workers end only by the exit test; only throwing callables yield failures
C5_FailureIsLocal ==
    /\ \A w \in Live : wpc[w] # "aborted" /\ (wpc[w] = "done" => stop)
    /\ \A t \in TaskIds : chan[t] = Failure => callable[t][1] = "throw"

\* C5: a callable that throws has its failure stored in its own task's result
\* channel and nowhere else: the step that runs it returns the worker to the
\* top of its loop, changes no other channel, neither the stop flag nor the
\* queue; no worker ever ends except by the exit test; and a task created
\* after a failure and accepted is still executed, with its own outcome.
C5_FailureIsolated ==
    /\ [][C5_FailureStep]_vars
    /\ [](C5_FailureIsLocal)
    /\ \A u \in TaskIds :
          (u \in afterFailure /\ u \in Accepted /\ callable[u][1] = "square")
              ~> (chan[u] = Value((u - 1) * (u - 1)))

\* the first task failed, and the second, created after that failure, was
\* executed by the only worker and returned its value
C5_Witness ==
    /\ threads = 1
    /\ chan[1] = Failure
    /\ 2 \in afterFailure
    /\ chan[2] = Value(1)
    /\ wpc[1] # "done"

\* C6: tasks are claimed in the order they were enqueued: the sequence of
\* tasks popped by all workers is a prefix of the sequence of tasks pushed,
\* and the queue holds exactly the pushed tasks not yet popped, in push order.
C6_FifoAvailability ==
    /\ IsPrefix(popOrder, pushOrder)
    /\ pushOrder = popOrder \o tasks

\* the second task created was pushed first, and both were claimed in push order
C6_Witness ==
    /\ pushOrder = <<2, 1>>
    /\ popOrder = <<2, 1>>

\* a step in which some call of get() returns
C7_GetStep ==
    \A t \in TaskIds :
        reads'[t] # reads[t] =>
            /\ Completed(t)
            /\ execCount[t] = 1
            /\ RunningTask(t) = {}
            /\ t \notin Range(tasks)
            /\ (fut[t] = "valid" => reads'[t] = Append(reads[t], chan[t]))

\* C7: get() never returns while its task is pending: every return of get()
\* happens with the outcome already written by a worker, and a get() on the
\* valid handle yields exactly that outcome.
C7_GetWaitsForOutcome == [][C7_GetStep]_vars

\* one handle has been read while the holder of another, valid, handle would
\* still be suspended in get(): its task is pending
C7_Witness ==
    \E t, u \in TaskIds :
        /\ Len(reads[t]) = 1
        /\ fut[u] = "valid"
        /\ ~Completed(u)

\* C8: the handle returned by the i-th enqueue call yields the outcome of the
\* i-th callable (i * i for the callable that squares its index i), whichever
\* worker ran it and in whichever order the tasks were claimed and completed.
C8_OwnResult ==
    \A t \in TaskIds :
        /\ (reads[t] # <<>> =>
               reads[t][1] = IF callable[t][1] = "square"
                             THEN Value((t - 1) * (t - 1)) ELSE Failure)
        /\ (Completed(t) =>
               chan[t] = IF callable[t][1] = "square"
                         THEN Value((t - 1) * (t - 1)) ELSE Failure)

\* the handles yielded 0 and 1 although the second task was claimed first
C8_Witness ==
    /\ reads[1] = <<Value(0)>>
    /\ reads[2] = <<Value(1)>>
    /\ popOrder = <<2, 1>>

C10_StopStep ==
    /\ (stop => stop')
    /\ (stop' # stop => dpc = "locked" /\ mutex = OwnerThread /\ dpc' = "notify")
    /\ (stop => pushOrder' = pushOrder /\ Len(tasks') <= Len(tasks))

\* C10: the stop flag is false initially and never reverts to false; only the
\* destructor's locked step writes it; and no task is added to the queue in a
\* state where it is true.
C10_StopMonotonic == (~stop) /\ [][C10_StopStep]_vars

\* the flag is set, a task accepted earlier is still queued, and a client
\* holds the lock inside enqueue
C10_Witness ==
    /\ stop
    /\ tasks # <<>>
    /\ \E c \in Clients : cpc[c] = "locked"

\* tasks taken from the queue whose invocation has not ended
InFlight == {t \in TaskIds : popCount[t] > execCount[t]}

\* C11: the number of tasks executing at any time is at most the thread count
\* given at construction, however many tasks were submitted, and every task
\* in execution is held by exactly one worker, which holds no other task.
C11_BoundedConcurrency ==
    /\ Cardinality(InFlight) <= threads
    /\ Cardinality({w \in Live : Running(w)}) = Cardinality(InFlight)
    /\ \A t \in InFlight : Cardinality(RunningTask(t)) = 1
    /\ \A w \in Live : Running(w) <=> wtask[w] # 0

\* the only worker is executing a task while another accepted task waits
C11_Witness ==
    /\ threads = 1
    /\ Cardinality(InFlight) = 1
    /\ tasks # <<>>

\* the mutex is held only by a thread at its one locked step
LockHeldBriefly ==
    /\ \A w \in Live : mutex = WorkerThread(w) => wpc[w] = "pred"
    /\ \A c \in Clients : mutex = ClientThread(c) => cpc[c] = "locked"
    /\ mutex = OwnerThread => dpc = "locked"

\* an enqueue call that found stop clear while holding the lock pushes its
\* task and then returns a valid handle
C12_ReturnsHandle ==
    \A c \in Clients :
        /\ (cpc[c] = "locked" /\ ~stop /\ cpc'[c] # "locked") =>
               (cpc'[c] = "notify" /\ tasks' = Append(tasks, ctask[c]))
        /\ (cpc[c] = "notify" /\ cpc'[c] # "notify") =>
               (cpc'[c] = "idle" /\ fut'[ctask[c]] = "valid")

\* C12: enqueue never blocks on task execution: even if no callable ever
\* returns, every enqueue call on a living pool runs to its end, and a call
\* that finds stop clear returns its handle; the only thing it waits for is
\* the mutex, which is held only for the push, the pop and the flag tests.
C12_EnqueueNeverBlocksOnTasks ==
    /\ \A c \in Clients : (cpc[c] # "idle") ~> (cpc[c] = "idle" \/ ~Alive)
    /\ [][C12_ReturnsHandle]_vars
    /\ [](LockHeldBriefly)

\* every worker is executing a task and a further task, whose handle has
\* already been returned, is still in the queue
C12_Witness ==
    /\ \A w \in Live : Running(w)
    /\ \E t \in Range(tasks) : fut[t] = "valid"
    /\ ~stop

\* C13: under fair scheduling and terminating callables, once the destructor
\* has set the stop flag and woken the workers, every worker terminates and
\* the join loop ends.
C13_ShutdownTerminates ==
    (dpc = "join") ~> (dpc = "returned" /\ \A w \in Live : wpc[w] = "done")

\* the destructor of a pool with two workers, both of which were blocked in
\* the wait or busy, has returned
C13_Witness ==
    /\ threads = 2
    /\ dpc = "returned"
    /\ popOrder # <<>>

\* C16: the queue lock is never held by a worker that is executing a task,
\* so the mutex can be free or held by another thread while tasks run.
C16_NoLockWhileRunning ==
    \A w \in Live : Running(w) => mutex # WorkerThread(w)

\* one worker is executing a task while the other worker holds the lock
C16_Witness ==
    \E w, v \in Live :
        /\ Running(w)
        /\ mutex = WorkerThread(v)
        /\ tasks # <<>>

\* the step in which a worker terminates
C17_ExitStep ==
    \A w \in Live :
        (wpc[w] # "done" /\ wpc'[w] = "done") =>
            /\ wpc[w] = "pred"
            /\ mutex = WorkerThread(w)
            /\ stop
            /\ empty(tasks)

\* C17: a worker terminates only in a step in which, holding the lock, it
\* sees the stop flag true and the queue empty; no worker has terminated
\* while the stop flag is false, and none ends in any other way.
C17_ExitOnlyOnSignal ==
    /\ [][C17_ExitStep]_vars
    /\ [](\A w \in Live : wpc[w] # "aborted" /\ (wpc[w] = "done" => stop))

\* one worker has terminated while the other is still executing a task
C17_Witness ==
    \E w, v \in Live : wpc[w] = "done" /\ Running(v)

\* a task is queued, every worker is blocked in the wait and no notification
\* is on its way
Stuck ==
    /\ tasks # <<>>
    /\ \A w \in Live : wpc[w] = "wait" /\ w \in waiters
    /\ \A c \in Clients : cpc[c] # "notify"
    /\ dpc # "notify"

\* a step that takes a task finds it at the head of a non-empty queue
C18_TakeStep ==
    popOrder' # popOrder =>
        /\ ~empty(tasks)
        /\ popOrder' = Append(popOrder, Head(tasks))
        /\ tasks' = Tail(tasks)

\* C18: no worker removes the head of an empty queue, also when woken
\* spuriously or when several workers are woken for fewer tasks; and no
\* notification is lost: never is a task queued with every worker blocked in
\* the wait and no notification still to come.
C18_NoLostWakeup == [][C18_TakeStep]_vars /\ [](~Stuck)

\* a worker was woken although there is nothing to take, while the other is
\* still blocked in the wait
C18_Witness ==
    \E w, v \in Live :
        /\ wpc[w] = "relock"
        /\ wpc[v] = "wait"
        /\ empty(tasks)
        /\ ~stop
        /\ popOrder # <<>>

\* C19: in a pool with one worker, a task starts executing only after every
\* task enqueued before it has its outcome written.
C19_SingleWorkerOrder ==
    threads = 1 =>
        \A i, j \in 1..Len(pushOrder) :
            (i < j /\ popCount[pushOrder[j]] > 0) =>
                (Completed(pushOrder[i]) /\ execCount[pushOrder[i]] = 1)

\* the only worker is executing the task pushed second after completing the
\* task pushed first, which was created later
C19_Witness ==
    /\ threads = 1
    /\ pushOrder = <<2, 1>>
    /\ RunningTask(1) # {}
    /\ Completed(2)

\* C20: once any worker has terminated the task queue is empty, and it stays
\* empty: no later step adds a task.
C20_EmptyAfterExit ==
    (\E w \in Live : wpc[w] = "done") => empty(tasks)

\* a worker has terminated, the other has not, and an enqueue call made
\* since the flag was set has been rejected
C20_Witness ==
    /\ \E w, v \in Live : wpc[w] = "done" /\ wpc[v] # "done"
    /\ rejected # {}

\* C15 (as stated): in a pool constructed with thread count 0 no accepted
\* task starts executing and no result channel is ever written, up to and
\* including the destructor's return.
C15_NothingEverWritten ==
    \A t \in TaskIds : popCount[t] = 0 /\ execCount[t] = 0 /\ chan[t] = Pending

\* C15 (amended): in a pool constructed with thread count 0, enqueue accepts
\* tasks onto the queue, but no task is ever taken or executed and no value
\* or callable failure is ever stored; the only write to a result channel is
\* the broken_promise stored for each task still queued when the destructor
\* destroys the queue, and that is all a get() on its handle can yield.
C15_NeverExecutes ==
    /\ threads = 0
    /\ popOrder = <<>>
    /\ (dpc # "destroyed" => tasks = pushOrder)
    /\ \A t \in TaskIds :
          /\ popCount[t] = 0
          /\ execCount[t] = 0
          /\ chan[t] \in {Pending, Broken}
          /\ (chan[t] = Broken => dpc = "destroyed" /\ t \in Accepted)
          /\ \A i \in 1..Len(reads[t]) : reads[t][i] = Broken

\* the destructor of the pool has ended with a task still queued, and the
\* holder of that task's handle got broken_promise from get()
C15_Witness ==
    /\ threads = 0
    /\ dpc = "destroyed"
    /\ \E t \in Accepted : chan[t] = Broken /\ reads[t] = <<Broken>>

\* C14: running the shutdown protocol and then running it again leaves the
\* pool as one run leaves it (stop true, queue drained, every worker
\* terminated), and the second run ends without an error.
C14_ShutdownIdempotent ==
    runs = 1 =>
        /\ dpc # "error"
        /\ stop
        /\ empty(tasks)
        /\ \A w \in Live : wpc[w] = "done"

====
